---- MODULE Spec2Model ----
(***************************************************************************)
(* Ant Colony Optimization for the TSP (src/antcolony.py, class AntColony). *)
(*                                                                         *)
(* Floating point values are modelled exactly as fixed-point numbers: a    *)
(* pheromone intensity or an inverse distance x is the natural number      *)
(* x * Unit.  Distances are drawn from divisors of Unit, so that 1.0 / d   *)
(* and 1 / N are exact.  The IEEE values +inf and nan, which numpy         *)
(* produces for 1.0 / 0, 0 * inf and 0 / 0, are the two values Inf, NaN.   *)
(* Nodes are numbered from 0 as in the code.  A random draw is a           *)
(* nondeterministic choice among the indexes of positive probability.      *)
(***************************************************************************)
EXTENDS Integers, Sequences, FiniteSets, TLC

\* Bounds of the model.
MaxAnts == 2
MaxIter == 2

\* Denominator of the fixed-point representation (lcm of 1..5).
Unit == 4 * 3 * 5

\* np.inf and numpy's nan.
Inf == -1
NaN == -2

VARIABLES
    distances,        \* self.distances
    pheromone,        \* self.pheromone
    nr_ants,          \* self.nr_ants
    nr_best,          \* self.nr_best
    nr_iterations,    \* self.nr_iterations
    decay,            \* self.decay, a fraction <<numerator, denominator>>
    alpha,            \* self.alpha
    beta,             \* self.beta
    phero_min,        \* self.phero_min
    phero_max,        \* self.phero_max
    nprocs,           \* self.nprocs
    pc,               \* position of run: "loop", "map", "returned", "raised"
    iter,             \* number of completed iterations of the for loop of run
    ants,             \* the tasks of the current p.map call, one per ant
    all_time_shortest_path,  \* <<path, length>>
    result,           \* the value run returned, None before
    error,            \* the exception run raised, "none" before
    updates,          \* history: number of update_pheromone calls so far
    generated         \* history: lengths of all tours generated so far

params == <<distances, nr_ants, nr_best, nr_iterations, decay, alpha, beta,
            phero_min, phero_max, nprocs>>
vars == <<distances, pheromone, nr_ants, nr_best, nr_iterations, decay, alpha,
          beta, phero_min, phero_max, nprocs, pc, iter, ants,
          all_time_shortest_path, result, error, updates,
          generated>>

----------------------------------------------------------------------------
\* Arithmetic on the non-negative numbers, +inf and nan.

IsFinite(x) == x >= 0

\* a + b
Add(a, b) ==
    IF a = NaN \/ b = NaN THEN NaN
    ELSE IF a = Inf \/ b = Inf THEN Inf
    ELSE a + b

\* a * b, where 0 * inf is nan
Mul(a, b) ==
    IF a = NaN \/ b = NaN THEN NaN
    ELSE IF a = Inf \/ b = Inf THEN (IF a = 0 \/ b = 0 THEN NaN ELSE Inf)
    ELSE a * b

\* a < b (any comparison with nan is false)
Less(a, b) ==
    IF a = NaN \/ b = NaN THEN FALSE
    ELSE IF a = Inf THEN FALSE
    ELSE IF b = Inf THEN TRUE
    ELSE a < b

Leq(a, b) == a # NaN /\ b # NaN /\ ~Less(b, a)

\* 1.0 / d for a distance d (an integer, or +inf), in units of 1 / Unit
Recip(d) ==
    IF d = NaN THEN NaN
    ELSE IF d = Inf THEN 0
    ELSE IF d = 0 THEN Inf
    ELSE Unit \div d

RECURSIVE IntPow(_, _)
IntPow(x, e) == IF e = 0 THEN 1 ELSE x * IntPow(x, e - 1)

\* x ** e for an exponent e >= 0; numpy gives x ** 0 = 1 for every x
Pow(x, e) ==
    IF e = 0 THEN 1
    ELSE IF x = NaN THEN NaN
    ELSE IF x = Inf THEN Inf
    ELSE IntPow(x, e)

----------------------------------------------------------------------------
\* The distance matrix.

N == Cardinality(DOMAIN distances)
Nodes == 0 .. (N - 1)
all_indexes == Nodes

None == << >>
Placeholder == << >>

\* A square matrix from its rows, indexed from 0.
Matrix(rows) ==
    [i \in 0 .. (Len(rows) - 1) |->
        [j \in 0 .. (Len(rows) - 1) |-> rows[i + 1][j + 1]]]

\* The values of the diagonal: 0 as in a table of distances, +inf as the
\* driver prepares it (cities_of_europe.py, line 9).
DiagValues == {0, Inf}

\* The distance matrices of the model: symmetric and asymmetric ones, with
\* and without +inf edges (an edge that is never needed, the closing edge, a
\* dead end, the first edge), each with every value of the diagonal, and two
\* matrices with a positive finite diagonal.
Matrices ==
    UNION {{Matrix(<< <<dg, 1, 2>>, <<1, dg, 2>>, <<2, 2, dg>> >>),
            Matrix(<< <<dg, 1, 2>>, <<2, dg, 1>>, <<1, 2, dg>> >>),
            Matrix(<< <<dg, 1, Inf>>, <<2, dg, 1>>, <<1, 2, dg>> >>),
            Matrix(<< <<dg, 1, Inf>>, <<1, dg, 1>>, <<Inf, 1, dg>> >>),
            Matrix(<< <<dg, 1, Inf>>, <<1, dg, Inf>>, <<Inf, Inf, dg>> >>),
            Matrix(<< <<dg, 5>>, <<5, dg>> >>),
            Matrix(<< <<dg, 5>>, <<Inf, dg>> >>),
            Matrix(<< <<dg, Inf>>, <<5, dg>> >>)} : dg \in DiagValues}
    \cup {Matrix(<< <<2, 1, 2>>, <<2, 2, 1>>, <<1, 2, 2>> >>),
          Matrix(<< <<2, 5>>, <<5, 2>> >>)}

\* distances with every diagonal entry replaced by dg
WithDiagonal(d, dg) ==
    [i \in DOMAIN d |-> [j \in DOMAIN d |-> IF i = j THEN dg ELSE d[i][j]]]

----------------------------------------------------------------------------
\* pick_move

\* pheromone[list(visited)] = 0 on a copy of the row
ZeroVisited(pher, visited) ==
    [i \in Nodes |-> IF i \in visited THEN 0 ELSE pher[i]]

\* row = pheromone ** self.alpha * ((1.0 / dist) ** self.beta)
ScoreRow(pher, dist, visited) ==
    LET z == ZeroVisited(pher, visited)
    IN  [i \in Nodes |-> Mul(Pow(z[i], alpha), Pow(Recip(dist[i]), beta))]

RECURSIVE SumUpTo(_, _)
SumUpTo(row, k) == IF k < 0 THEN 0 ELSE Add(SumUpTo(row, k - 1), row[k])

\* row.sum()
RowSum(row) == SumUpTo(row, N - 1)

\* A probability x / s is the fraction [num |-> x, den |-> s]; a fraction with
\* den = 0 is not a finite number (0 / 0 and inf / inf are nan).
NotANumber == [num |-> 0, den |-> 0]

\* x / s
Divide(x, s) ==
    IF x = NaN \/ s = NaN THEN NotANumber
    ELSE IF s = Inf THEN (IF x = Inf THEN NotANumber ELSE [num |-> 0, den |-> 1])
    ELSE IF s = 0 \/ x = Inf THEN NotANumber
    ELSE [num |-> x, den |-> s]

\* norm_row = row / row.sum()
NormRow(row) == [i \in Nodes |-> Divide(row[i], RowSum(row))]

Move(i) == [err |-> "none", move |-> i]
Raised(e) == [err |-> e, move |-> 0]

\* np.random.choice(self.all_indexes, 1, p=p)[0]: numpy raises ValueError when
\* p contains nan, and otherwise draws an index of positive probability.
RandomChoice(p) ==
    IF \E i \in all_indexes : p[i].den = 0
    THEN {Raised("ValueError")}
    ELSE {Move(i) : i \in {j \in all_indexes : p[j].num > 0}}

\* The possible outcomes of pick_move(pheromone, dist, visited).
pick_move(pher, dist, visited) ==
    RandomChoice(NormRow(ScoreRow(pher, dist, visited)))

----------------------------------------------------------------------------
\* compute_path_distance and update_pheromone

RECURSIVE compute_path_distance(_)
compute_path_distance(path) ==
    IF path = << >> THEN 0
    ELSE Add(compute_path_distance(SubSeq(path, 1, Len(path) - 1)),
             distances[path[Len(path)][1]][path[Len(path)][2]])

\* Insert x into the sorted sequence s behind every element whose key is not
\* greater (x comes later in the input: the sort is stable).
RECURSIVE InsertSorted(_, _)
InsertSorted(x, s) ==
    IF s = << >> THEN <<x>>
    ELSE IF Less(x[2], s[Len(s)][2])
         THEN Append(InsertSorted(x, SubSeq(s, 1, Len(s) - 1)), s[Len(s)])
         ELSE Append(s, x)

\* sorted(all_paths, key=lambda x: x[1])
RECURSIVE SortedPaths(_)
SortedPaths(s) ==
    IF s = << >> THEN << >>
    ELSE InsertSorted(s[Len(s)], SortedPaths(SubSeq(s, 1, Len(s) - 1)))

\* sorted_paths[:self.nr_best]
BestPaths(sorted_paths) ==
    SubSeq(sorted_paths, 1,
           IF nr_best < Len(sorted_paths) THEN nr_best ELSE Len(sorted_paths))

\* self.pheromone[move] += 1.0 / self.distances[move]
DepositMove(ph, move) ==
    [ph EXCEPT ![move[1]][move[2]] = Add(@, Recip(distances[move[1]][move[2]]))]

\* for move in path: ...
RECURSIVE DepositPath(_, _)
DepositPath(ph, path) ==
    IF path = << >> THEN ph
    ELSE DepositPath(DepositMove(ph, Head(path)), Tail(path))

\* for path, dist in sorted_paths[:self.nr_best]: ...
RECURSIVE DepositAll(_, _)
DepositAll(ph, paths) ==
    IF paths = << >> THEN ph
    ELSE DepositAll(DepositPath(ph, Head(paths)[1]), Tail(paths))

\* self.pheromone * self.decay, exactly: the entry x * decay is the fraction
\* [num |-> x * decay[1], den |-> decay[2]] in units of 1 / Unit (the product
\* need not be a multiple of 1 / Unit); inf * decay is inf.
Decayed(ph) ==
    [i \in Nodes |-> [j \in Nodes |->
        [num |-> Mul(ph[i][j], decay[1]), den |-> decay[2]]]]

\* A mutant of update_pheromone that assigns the product back:
\* "self.pheromone = self.pheromone * self.decay", here rounded down to a
\* multiple of 1 / Unit.
AfterDecayAssigned(ph) ==
    [i \in Nodes |-> [j \in Nodes |->
        IF IsFinite(Decayed(ph)[i][j].num)
        THEN Decayed(ph)[i][j].num \div Decayed(ph)[i][j].den
        ELSE Decayed(ph)[i][j].num]]

\* The matrix that update_pheromone works on after the statement
\* "self.pheromone * self.decay": the product is computed and dropped.
AfterDecay(ph) ==
    LET decayed == Decayed(ph)
    IN  ph

\* min(max(x, lo), hi) without an upper bound
ClipValueNoMax(x, lo, hi) == IF Less(x, lo) THEN lo ELSE x

\* np.clip of one entry: min(max(x, lo), hi)
ClipValue(x, lo, hi) ==
    LET y == IF Less(x, lo) THEN lo ELSE x
    IN  IF Less(hi, y) THEN hi ELSE y

\* np.clip(self.pheromone, self.phero_min, self.phero_max)
Clip(ph) ==
    [i \in Nodes |-> [j \in Nodes |-> ClipValue(ph[i][j], phero_min, phero_max)]]

\* The pheromone matrix before the final clip of update_pheromone.
Unclamped(ph, all_paths) ==
    DepositAll(AfterDecay(ph), BestPaths(SortedPaths(all_paths)))

update_pheromone(ph, all_paths) == Clip(Unclamped(ph, all_paths))

\* min(all_paths, key=lambda x: x[1]): the first path of minimal length
RECURSIVE MinPath(_)
MinPath(s) ==
    IF Len(s) = 1 THEN s[1]
    ELSE LET m == MinPath(SubSeq(s, 1, Len(s) - 1))
         IN  IF Less(s[Len(s)][2], m[2]) THEN s[Len(s)] ELSE m

----------------------------------------------------------------------------
\* The state machine of run.

Start == 0

Exponents == {0, 1}
Decays == {<<1, 2>>}
\* (phero_min, phero_max) in units of 1 / Unit: the defaults (0, 1), and a
\* range below and a range above the initial 1 / N.
PheroBounds == {<<0, Unit>>, <<0, Unit \div 6>>, <<Unit - 15, Unit - 10>>}

\* np.ones(self.distances.shape) / len(distance_matrix)
InitialPheromone == [i \in Nodes |-> [j \in Nodes |-> Unit \div N]]

QueuedAnt ==
    [st |-> "queued", path |-> << >>, visited |-> {}, prev |-> Start,
     pher |-> None, err |-> "none"]

Init ==
    /\ distances \in Matrices
    /\ nr_ants \in 1 .. MaxAnts
    /\ nr_best \in 1 .. (MaxAnts + 1)
    /\ nr_iterations \in 1 .. MaxIter
    /\ decay \in Decays
    /\ alpha \in Exponents
    /\ beta \in Exponents
    /\ \E b \in PheroBounds : phero_min = b[1] /\ phero_max = b[2]
    /\ nprocs \in {1, 2}
    \* With alpha = 0 the pheromone has no part in the draw and every node
    \* can be drawn again: a second ant only repeats the draws of the first.
    /\ alpha = 0 => nr_ants = 1
    /\ pheromone = InitialPheromone
    /\ pc = "loop"
    /\ iter = 0
    /\ ants = << >>
    /\ all_time_shortest_path = <<Placeholder, Inf>>
    /\ result = None
    /\ error = "none"
    /\ updates = 0
    /\ generated = {}

Ants == DOMAIN ants

Running == {a \in Ants : ants[a].st = "running"}

\* all_paths = self.generate_all_paths(p): p.map puts one task per ant on the
\* task queue of the pool and blocks until every task has returned.
Dispatch ==
    /\ pc = "loop"
    /\ iter < nr_iterations
    /\ ants' = [a \in 1 .. nr_ants |-> QueuedAnt]
    /\ pc' = "map"
    /\ UNCHANGED <<params, pheromone, iter, all_time_shortest_path, result,
                   error, updates, generated>>

\* A free worker process takes the next task from the queue: it works on the
\* pickled copy of self, and enters generate_path(0).
StartAnt(a) ==
    /\ pc = "map"
    /\ ants[a].st = "queued"
    /\ \A b \in Ants : b < a => ants[b].st # "queued"
    /\ Cardinality(Running) < nprocs
    /\ ants' = [ants EXCEPT ![a] = [st |-> "running", path |-> << >>,
                                    visited |-> {Start}, prev |-> Start,
                                    pher |-> pheromone, err |-> "none"]]
    /\ UNCHANGED <<params, pheromone, pc, iter, all_time_shortest_path,
                   result, error, updates, generated>>

\* One pass of the loop of generate_path; after the last pass the closing
\* move is appended and the path is returned.
PickMove(a) ==
    /\ pc = "map"
    /\ ants[a].st = "running"
    /\ \E o \in pick_move(ants[a].pher[ants[a].prev],
                          distances[ants[a].prev], ants[a].visited) :
          ants' = [ants EXCEPT ![a] =
                     IF o.err # "none"
                     THEN [@ EXCEPT !.st = "failed", !.err = o.err]
                     ELSE IF Len(ants[a].path) + 1 < N - 1
                     THEN [@ EXCEPT !.path = Append(@, <<ants[a].prev, o.move>>),
                                    !.prev = o.move,
                                    !.visited = @ \cup {o.move}]
                     ELSE [@ EXCEPT !.path = @ \o << <<ants[a].prev, o.move>>,
                                                     <<o.move, Start>> >>,
                                    !.prev = o.move,
                                    !.visited = @ \cup {o.move},
                                    !.st = "done"]]
    /\ UNCHANGED <<params, pheromone, pc, iter, all_time_shortest_path,
                   result, error, updates, generated>>

\* A mutant of the barrier of p.map: it returns with the first result.
SomeReturned == \E a \in Ants : ants[a].st = "done"

\* p.map returns (or raises) when every task of the call has finished.
AllReturned == \A a \in Ants : ants[a].st \in {"done", "failed"}

Failed == {a \in Ants : ants[a].st = "failed"}

\* all_paths = [(path, self.compute_path_distance(path)) for path in all_paths]
AllPaths ==
    [a \in Ants |-> <<ants[a].path, compute_path_distance(ants[a].path)>>]

\* A mutant of the comparison of run: the tracker is replaced on a tie.
BetterOrEqual(candidate, best) == ~Less(best[2], candidate[2])

\* shortest_path[1] < all_time_shortest_path[1]
Better(candidate, best) == Less(candidate[2], best[2])

\* The rest of one pass of the loop of run, after p.map has returned all
\* paths: update_pheromone, min, and the update of all_time_shortest_path.
\* The tasks of the finished p.map call are gone.
Iterate ==
    /\ pc = "map"
    /\ AllReturned
    /\ Failed = {}
    /\ LET all_paths == AllPaths
           shortest_path == MinPath(all_paths)
       IN  /\ pheromone' = update_pheromone(pheromone, all_paths)
           /\ all_time_shortest_path' =
                 IF Better(shortest_path, all_time_shortest_path)
                 THEN shortest_path ELSE all_time_shortest_path
           /\ generated' = generated \cup {all_paths[a][2] : a \in Ants}
    /\ iter' = iter + 1
    /\ updates' = updates + 1
    /\ pc' = "loop"
    /\ ants' = << >>
    /\ UNCHANGED <<params, result, error>>

\* p.map re-raises in the caller the exception of the task that failed
\* first, once every task has finished; it leaves run through the with
\* statement.
Raise ==
    /\ pc = "map"
    /\ AllReturned
    /\ Failed # {}
    /\ \E a \in Failed : error' = ants[a].err
    /\ pc' = "raised"
    /\ UNCHANGED <<params, pheromone, iter, ants, all_time_shortest_path,
                   result, updates, generated>>

\* return all_time_shortest_path
Return ==
    /\ pc = "loop"
    /\ iter = nr_iterations
    /\ result' = all_time_shortest_path
    /\ pc' = "returned"
    /\ UNCHANGED <<params, pheromone, iter, ants, all_time_shortest_path,
                   error, updates, generated>>

Next ==
    \/ Dispatch
    \/ \E a \in Ants : StartAnt(a)
    \/ \E a \in Ants : PickMove(a)
    \/ Iterate
    \/ Raise
    \/ Return

Spec == Init /\ [][Next]_vars

----------------------------------------------------------------------------
\* Properties.

Done == {a \in Ants : ants[a].st = "done"}

\* A closed Hamiltonian cycle from Start: N chained moves, the first leaves
\* Start, the last returns to Start, every node is entered exactly once.
IsTour(path) ==
    /\ Len(path) = N
    /\ path[1][1] = Start
    /\ path[N][2] = Start
    /\ \A k \in 1 .. (N - 1) : path[k][2] = path[k + 1][1]
    /\ \A n \in Nodes : Cardinality({k \in 1 .. N : path[k][2] = n}) = 1

\* Every distance off the diagonal is finite and positive.
FiniteOffDiagonal ==
    \A i \in Nodes : \A j \in Nodes :
        i # j => (IsFinite(distances[i][j]) /\ distances[i][j] > 0)

\* C1: for finite positive distances off the diagonal and every alpha >= 0
\* including alpha = 0, every tour that generate_path returns has exactly N
\* chained moves from Start back to Start and enters every node exactly once
\* (pick_move never selects a visited node).
C1_ToursAreHamiltonian ==
    FiniteOffDiagonal => \A a \in Done : IsTour(ants[a].path)

\* C2: after every call of update_pheromone every entry of the pheromone
\* matrix lies in [phero_min, phero_max], whatever the tours and the values
\* before the call.
C2_PheromoneWithinBounds ==
    updates >= 1 =>
        \A i \in Nodes : \A j \in Nodes :
            /\ Leq(phero_min, pheromone[i][j])
            /\ Leq(pheromone[i][j], phero_max)

\* An update has run from an initial 1 / N below phero_min, and an entry that
\* a deposit took above phero_max has been clamped to phero_max.
C2_Witness ==
    /\ updates = 1
    /\ Unit \div N < phero_min
    /\ \E i \in Nodes : \E j \in Nodes :
          /\ pheromone[i][j] = phero_max
          /\ IsFinite(distances[i][j])
          /\ distances[i][j] > 0
          /\ Unit \div N + Recip(distances[i][j]) > phero_max

\* C3: the pheromone matrix is updated once per iteration and only when all
\* nr_ants tour constructions of the iteration have returned; every ant of
\* an iteration reads the pheromone values that the previous update left.
C3_UpdateAfterBarrier ==
    /\ [][(updates' # updates \/ pheromone' # pheromone) =>
             /\ pc = "map"
             /\ Cardinality(Done) = nr_ants
             /\ updates' = updates + 1
             /\ iter' = iter + 1]_vars
    /\ [](updates = iter)
    /\ [](\A a \in Ants : ants[a].st # "queued" => ants[a].pher = pheromone)

\* In the second iteration two ants are under construction at once, both on
\* the pheromone that the first update left.
C3_Witness ==
    /\ updates = 1
    /\ pheromone # InitialPheromone
    /\ Cardinality(Running) = 2
    /\ \A a \in Running : ants[a].pher = pheromone /\ ants[a].path # << >>

\* The least length of a set of lengths, +inf for the empty set.
MinLength(S) ==
    IF S = {} THEN Inf ELSE CHOOSE x \in S : \A y \in S : Leq(x, y)

\* C4: the best-ever tour starts as the sentinel of length +inf; after every
\* iteration its length is the minimum over all tours generated so far, and
\* it is replaced only by a strictly shorter tour.
C4_BestIsMinimum ==
    /\ [](all_time_shortest_path[2] = MinLength(generated))
    /\ [](updates = 0 => all_time_shortest_path = <<Placeholder, Inf>>)
    /\ [][all_time_shortest_path' # all_time_shortest_path =>
             Less(all_time_shortest_path'[2], all_time_shortest_path[2])]_vars

\* After two iterations the tracker holds a finite tour that is strictly
\* shorter than another generated tour.
C4_Witness ==
    /\ updates = 2
    /\ IsFinite(all_time_shortest_path[2])
    /\ IsTour(all_time_shortest_path[1])
    /\ \E x \in generated : Less(all_time_shortest_path[2], x)

\* The scores of the candidates of ant a at its current position.
Scores(a) ==
    ScoreRow(ants[a].pher[ants[a].prev], distances[ants[a].prev],
             ants[a].visited)

AllZero(row) == \A i \in Nodes : row[i] = 0

\* A step of the program as C5 requires it: when every candidate's score of
\* a running ant is zero, its next step fails with NoFeasibleMoveError; once
\* an ant has failed, run updates no pheromone and returns no result, and it
\* raises NoFeasibleMoveError for good.
ZeroScoresRaise ==
    /\ \A a \in Ants :
          (ants[a].st = "running" /\ AllZero(Scores(a))
              /\ a \in DOMAIN ants' /\ ants'[a] # ants[a])
          => (ants'[a].st = "failed" /\ ants'[a].err = "NoFeasibleMoveError")
    /\ Failed # {} =>
          /\ updates' = updates
          /\ pc' \in {"map", "raised"}
          /\ result' = None
          /\ (pc' = "raised" => error' = "NoFeasibleMoveError")
    /\ pc = "raised" => pc' = "raised"

\* C5: a step at which every candidate's score is zero fails with
\* NoFeasibleMoveError instead of dividing by the zero sum, and run
\* propagates it at once without returning a result.
C5_NoFeasibleMoveError == [][ZeroScoresRaise]_vars

\* The orders in which a tour from Start can visit the nodes.
VisitOrders ==
    {f \in [1 .. N -> Nodes] :
        f[1] = Start /\ \A k \in 1 .. N : \A l \in 1 .. N : f[k] = f[l] => k = l}

RECURSIVE OrderLength(_, _)
OrderLength(f, k) ==
    IF k = N THEN distances[f[N]][Start]
    ELSE Add(distances[f[k]][f[k + 1]], OrderLength(f, k + 1))

\* No closed tour from Start has a finite length.
NoFiniteTour == \A f \in VisitOrders : ~IsFinite(OrderLength(f, 1))

\* C6: when +inf edges leave no complete tour of finite length from the start
\* node, run never returns normally (here for alpha, beta > 0, where no ant
\* revisits a node or ignores the distances).
C6_InfeasibleNeverReturns ==
    (NoFiniteTour /\ alpha > 0 /\ beta > 0) => pc # "returned"

\* C7: with nr_best > nr_ants the construction fails, so no pheromone update
\* ever happens and run returns nothing (here for alpha, beta > 0 and finite
\* positive distances, where nothing else is wrong with the input).
C7_InvalidParametersRejected ==
    (nr_best > nr_ants /\ alpha > 0 /\ beta > 0 /\ FiniteOffDiagonal)
        => (updates = 0 /\ result = None)

Scenario1 == Matrix(<< <<0, 5>>, <<5, 0>> >>)

\* C8: the diagonal of the distance matrix never affects move selection: with
\* any other diagonal pick_move has the same outcomes (here for alpha > 0,
\* where pick_move excludes the visited nodes); and the matrix [[0,5],[5,0]]
\* with one ant and one iteration yields [(0,1),(1,0)], 10.
C8_DiagonalNeverRead ==
    /\ \A a \in Running : \A dg \in DiagValues :
          alpha > 0 =>
          pick_move(ants[a].pher[ants[a].prev],
                    WithDiagonal(distances, dg)[ants[a].prev],
                    ants[a].visited)
          = pick_move(ants[a].pher[ants[a].prev], distances[ants[a].prev],
                      ants[a].visited)
    /\ (distances = Scenario1 /\ nr_ants = 1 /\ nr_iterations = 1) =>
          /\ pc # "raised"
          /\ pc = "returned" => result = << << <<0, 1>>, <<1, 0>> >>, 10 >>

\* Ant a is among the nr_best shortest of the iteration: fewer than nr_best
\* ants have a shorter tour, or one as long and generated earlier.
Deposits(a) ==
    Cardinality({b \in Ants :
        \/ Less(AllPaths[b][2], AllPaths[a][2])
        \/ (AllPaths[b][2] = AllPaths[a][2] /\ b < a)}) < nr_best

\* c(i,j): the number of depositing tours that contain the move (i,j).
DepositCount(i, j) ==
    Cardinality({a \in Ants :
        Deposits(a) /\ \E k \in 1 .. Len(ants[a].path) :
                           ants[a].path[k] = <<i, j>>})

\* C9: in every update_pheromone call entry (i,j) grows, before the clamp, by
\* c(i,j) * 1 / distance(i,j), and an entry on no depositing tour is changed
\* by the clamp alone.
C9_DepositPerTour ==
    [][updates' # updates =>
          \A i \in Nodes : \A j \in Nodes :
              LET grown == IF DepositCount(i, j) = 0 THEN pheromone[i][j]
                           ELSE Add(pheromone[i][j],
                                    Mul(DepositCount(i, j),
                                        Recip(distances[i][j])))
              IN  /\ Unclamped(pheromone, AllPaths)[i][j] = grown
                  /\ pheromone'[i][j] = ClipValue(grown, phero_min, phero_max)]_vars

\* C10: pheromone never evaporates: from the first update on no entry ever
\* decreases, and an entry at phero_max stays there.
C10_NoEvaporation ==
    [][updates >= 1 =>
          \A i \in Nodes : \A j \in Nodes :
              /\ Leq(pheromone[i][j], pheromone'[i][j])
              /\ pheromone[i][j] = phero_max => pheromone'[i][j] = phero_max]_vars

\* After the second update an edge holds the initial 1 / N and both deposits
\* in full, below phero_max.
C10_Witness ==
    /\ updates = 2
    /\ \E i \in Nodes : \E j \in Nodes :
          /\ IsFinite(distances[i][j])
          /\ distances[i][j] > 0
          /\ pheromone[i][j] = Unit \div N + 2 * Recip(distances[i][j])
          /\ pheromone[i][j] < phero_max
====
